---- MODULE Spec2Model ----
(***************************************************************************)
(* FB::Deferred<T> / FB::Promise<T> (Deferred.h).                          *)
(*                                                                         *)
(* A cell is one Deferred<T>::StateData, shared through shared_ptr by the  *)
(* Deferred and Promise handles of the application and by the closures     *)
(* that Deferred::resolve(Promise) and Promise::thenPipe store in the      *)
(* callback lists.  Callbacks run synchronously and inline, so every       *)
(* public operation is one action whose effect is computed by running a    *)
(* small interpreter (Step / Run) of the C++ call stack to completion:     *)
(* the dispatch loops, nested settlements, exceptions and their            *)
(* unwinding, and the destructors that run when the last reference to a    *)
(* cell goes away.                                                         *)
(***************************************************************************)
EXTENDS Integers, Sequences, FiniteSets, TLC

\* ---------------------------------------------------------------- bounds
\* What one run of the application may do at most.  A run draws one of the
\* Scenarios below, each of which spends these bounds on a different part
\* of the API.
MaxCells == 3      \* cells (StateData objects) ever created
MaxHandles == 3    \* Deferred / Promise objects the application holds at once
MaxCb == 2         \* done / fail calls with application callbacks
MaxFwd == 1        \* Deferred::resolve(Promise) calls
MaxPipe == 1       \* thenPipe calls
MaxSettle == 2     \* resolve(v) / reject(e) / invalidate() calls of the application
MaxDepth == 24     \* call-stack depth at which unbounded recursion is cut
MaxCount == 2      \* invocation counters saturate here (2 = "more than once")

CellId == 1..MaxCells
HandleId == 1..MaxHandles
CbId == 1..MaxCb
NoCell == 0

\* "cell": one cell, built in any of the three ways, with copies of its
\*    handles and invalid Promises;
\* "chain": two cells linked by resolve(Promise);
\* "pipe": a source cell, the cell thenPipe derives from it and the cell of
\*    the promise the handler returns;
\* "invalid": then / thenPipe next to invalid Promises;
\* "inner": one cell whose callbacks settle it from inside.
\* share: Deferred / Promise objects are copied and promise() results kept;
\* pre: Deferred(v) and Deferred(ep) are used; unbound: Promise() is used;
\* inner: callbacks that call resolve / reject are used.
Scenarios ==
    { [name |-> "cell", cells |-> MaxCells - 2, handles |-> MaxHandles, cb |-> MaxCb,
       fwd |-> MaxFwd, pipe |-> 0, settle |-> MaxSettle, share |-> TRUE, pre |-> TRUE,
       unbound |-> TRUE, inner |-> FALSE],
      [name |-> "chain", cells |-> MaxCells - 1, handles |-> MaxHandles - 1, cb |-> MaxCb - 1,
       fwd |-> MaxFwd, pipe |-> 0, settle |-> MaxSettle, share |-> FALSE, pre |-> FALSE,
       unbound |-> FALSE, inner |-> FALSE],
      [name |-> "pipe", cells |-> MaxCells, handles |-> MaxHandles, cb |-> MaxCb - 1,
       fwd |-> MaxFwd - 1, pipe |-> MaxPipe, settle |-> MaxSettle, share |-> FALSE,
       pre |-> FALSE, unbound |-> FALSE, inner |-> FALSE],
      [name |-> "invalid", cells |-> MaxCells - 2, handles |-> MaxHandles - 1, cb |-> MaxCb - 1,
       fwd |-> MaxFwd - 1, pipe |-> MaxPipe, settle |-> MaxSettle - 1, share |-> FALSE,
       pre |-> FALSE, unbound |-> TRUE, inner |-> FALSE],
      [name |-> "inner", cells |-> MaxCells - 2, handles |-> MaxHandles - 1, cb |-> MaxCb - 1,
       fwd |-> MaxFwd - 1, pipe |-> 0, settle |-> MaxSettle, share |-> FALSE,
       pre |-> FALSE, unbound |-> FALSE, inner |-> TRUE] }

\* values of type T; "none" is the default-constructed T of a cell that
\* was never resolved
Val == {"v1", "v2"}
NoVal == "none"

\* exception_ptr payloads; "null" is the empty exception_ptr
UserErr == {"e1"}
NoErr == "null"
ErrAbandoned == "destroyed1"     \* runtime_error("Deferred object destroyed: 1")
ErrInvalidated == "destroyed2"   \* runtime_error("Deferred object destroyed: 2")
ErrInvalid == "invalid"          \* runtime_error("Promise invalid")
ErrCallback == "cbx"             \* a std::exception thrown by an application callback
ErrHandler == "hx"               \* a std::exception thrown by a thenPipe handler
ErrNonStd == "nonstd"            \* a thrown object not derived from std::exception

\* does `catch (std::exception e)` catch the exception?
IsStdException(e) == e # ErrNonStd

\* ----------------------------------------------------------------- cells
PENDING == "PENDING"
RESOLVED == "RESOLVED"
REJECTED == "REJECTED"

\* a slot of the cell table that holds no StateData yet
FreeCell ==
    [life |-> "free", state |-> PENDING, value |-> NoVal, err |-> NoErr,
     resolveList |-> <<>>, rejectList |-> <<>>]

\* a StateData whose destructor has finished
DeadCell == [FreeCell EXCEPT !.life = "dead"]

\* StateData(), StateData(T v), StateData(exception_ptr ep)
StateData(st, v, e) ==
    [life |-> "live", state |-> st, value |-> v, err |-> e,
     resolveList |-> <<>>, rejectList |-> <<>>]

\* ------------------------------------------------------------- callbacks
\* One record shape for every std::function stored in a list:
\*   userS / userF  an application callback given to done / fail (id, thr:
\*                  whether it throws when invoked)
\*   fwdR / fwdE    [dfd](T v){ dfd.resolve(v); } / [dfd](ep){ dfd.reject(ep); }
\*   pipeS / pipeF  thenPipe's onDone / two-handler onFail: [dfd, handler],
\*                  the handler described by hk (what it does) and hc (the
\*                  cell of the promise it returns)
NullCb == [k |-> "null", id |-> 0, thr |-> FALSE, q |-> NoCell, hk |-> "none", hc |-> NoCell]
UserCb(side, id, thr) == [NullCb EXCEPT !.k = side, !.id = id, !.thr = thr]
\* an application callback that captures a Deferred d on cell q and settles
\* it when invoked: [d](T){ d.reject(e1); } / [d](exception_ptr){ d.resolve(v1); }
SettlingCb(side, id, q) ==
    [NullCb EXCEPT !.k = side, !.id = id, !.q = q,
                   !.hk = IF side = "userS" THEN "settleE" ELSE "settleR"]
FwdResolve(q) == [NullCb EXCEPT !.k = "fwdR", !.q = q]
FwdReject(q) == [NullCb EXCEPT !.k = "fwdE", !.q = q]
PipeDone(q, hk, hc) == [NullCb EXCEPT !.k = "pipeS", !.q = q, !.hk = hk, !.hc = hc]
PipeFail(q, hk, hc) == [NullCb EXCEPT !.k = "pipeF", !.q = q, !.hk = hk, !.hc = hc]

HandlerKind == {"ret", "unbound", "throwStd", "throwOther"}

\* then's onDone: [dfd, cbSuccess]; hk says what cbSuccess does: "map"
\* (returns a value) or "mapThrow" (throws)
ThenDone(q, hk) == [NullCb EXCEPT !.k = "thenS", !.q = q, !.hk = hk]
ThenKind == {"map", "mapThrow"}

\* the value of type Uout that the handler of then returns for v
Apply(v) == IF v = "v1" THEN "w1" ELSE IF v = "v2" THEN "w2" ELSE "w0"

\* the cells a closure keeps alive, in the order its captures are released
\* (the standard leaves the layout of a closure open; the order taken here
\* is the handler first, then dfd, the reverse of the capture list)
CapSeq(cb) ==
    (IF cb.k \in {"pipeS", "pipeF"} /\ cb.hk = "ret" THEN <<cb.hc>> ELSE <<>>)
    \o (IF cb.k \in {"fwdR", "fwdE", "pipeS", "pipeF", "thenS"} \/ cb.hk \in {"settleE", "settleR"}
        THEN <<cb.q>> ELSE <<>>)

Range(s) == {s[i] : i \in DOMAIN s}

Caps(cb) == Range(CapSeq(cb))

\* ------------------------------------------------- the call-stack machine
\* A machine state m is the program state plus the C++ call stack:
\*   cells, handles   the StateData objects and the application's handles
\*   stack            frames still to run, the innermost first
\*   exc              the exception being propagated, or "none"
\*   crash            "no", or how the process died: "overflow" (unbounded
\*                    recursion), "terminate" (an exception leaves a
\*                    destructor), "ub" (a crash after undefined behaviour)
\*   fired, ninv, hinv, ub, reent   observations (see the VARIABLES)
\* One record shape for every frame:
\*   call    invoke cb with arg            held    a by-value copy of cb dies
\*   rloop / eloop   the for loop of StateData::resolve / reject on cell c,
\*           about to invoke element i of lst (the list as the loop began)
\*   destroy the std::function objects of lst are destroyed in order
\*   gc      shared_ptr releases of the cells cs, in order
\*   dtor    ~StateData of cell c is running (the frame ends it)
\*   done / doneF / doneS / fail   Promise::done and Promise::fail on cell c
\*   try     the try block of a thenPipe lambda whose dfd is cell c
\*   holdc   a local Deferred on cell c     bind   the returned Promise is
\*           stored in handle h             unwind  resume propagating arg
Frame(k) ==
    [k |-> k, c |-> NoCell, i |-> 0, lst |-> <<>>, cs |-> <<>>, arg |-> NoVal,
     cb |-> NullCb, cb2 |-> NullCb, h |-> 0]
CallFrame(cb, arg) == [Frame("call") EXCEPT !.cb = cb, !.arg = arg]
HeldFrames(cb) == IF Caps(cb) = {} THEN <<>> ELSE <<[Frame("held") EXCEPT !.cb = cb]>>
LoopFrame(k, c, arg, lst) == [Frame(k) EXCEPT !.c = c, !.arg = arg, !.lst = lst, !.i = 1]
DestroyFrames(lst) == IF lst = <<>> THEN <<>> ELSE <<[Frame("destroy") EXCEPT !.lst = lst]>>
GcFrames(cs) == IF cs = <<>> THEN <<>> ELSE <<[Frame("gc") EXCEPT !.cs = cs]>>
DtorFrame(c) == [Frame("dtor") EXCEPT !.c = c]
DoneFrame(c, cbS, cbF) == [Frame("done") EXCEPT !.c = c, !.cb = cbS, !.cb2 = cbF]
FailFrame(c, cbF) == [Frame("fail") EXCEPT !.c = c, !.cb = cbF]
TryFrame(q) == [Frame("try") EXCEPT !.c = q]
HoldCellFrame(c) == [Frame("holdc") EXCEPT !.c = c]
BindFrame(h, c) == [Frame("bind") EXCEPT !.h = h, !.c = c]
UnwindFrame(e) == [Frame("unwind") EXCEPT !.arg = e]

Pop(m) == [m EXCEPT !.stack = Tail(@)]
Replace(m, frames) == [m EXCEPT !.stack = frames \o Tail(@)]

Bump(n) == IF n < MaxCount THEN n + 1 ELSE n

\* the cells a frame holds a shared_ptr to, in the order it releases them
FrameRefSeq(f) ==
    IF f.k \in {"call", "held", "done", "doneF", "doneS", "fail"}
    THEN CapSeq(f.cb) \o CapSeq(f.cb2)
    ELSE IF f.k = "holdc" THEN <<f.c>> ELSE <<>>

FrameRefs(f) ==
    Range(FrameRefSeq(f))
    \cup (IF f.k = "destroy" THEN UNION {Caps(f.lst[i]) : i \in DOMAIN f.lst} ELSE {})

\* shared_ptr use_count > 0: a handle of the application, a closure stored
\* in a list of a cell that still exists, or something on the call stack
HasRef(m, c) ==
    \/ \E h \in HandleId : m.handles[h].kind # "free" /\ m.handles[h].cell = c
    \/ \E d \in CellId :
         /\ m.cells[d].life \in {"live", "dying"}
         /\ \/ \E i \in DOMAIN m.cells[d].resolveList : c \in Caps(m.cells[d].resolveList[i])
            \/ \E i \in DOMAIN m.cells[d].rejectList : c \in Caps(m.cells[d].rejectList[i])
    \/ \E i \in DOMAIN m.stack : c \in FrameRefs(m.stack[i])

\* a dispatch loop of cell c is on the call stack
InDispatch(m, c) ==
    \E i \in DOMAIN m.stack : m.stack[i].k \in {"rloop", "eloop"} /\ m.stack[i].c = c

\* StateData::resolve(v) is entered (m.stack is the caller's continuation)
StateData_resolve(m, c, v) ==
    LET cell == m.cells[c] IN
    [m EXCEPT !.cells[c] = [cell EXCEPT !.value = v, !.state = RESOLVED, !.rejectList = <<>>],
              !.stack = DestroyFrames(cell.rejectList)
                        \o <<LoopFrame("rloop", c, v, cell.resolveList)>> \o @,
              !.reent = @ \/ InDispatch(m, c)]

\* StateData::reject(ep) is entered
StateData_reject(m, c, e) ==
    LET cell == m.cells[c] IN
    [m EXCEPT !.cells[c] = [cell EXCEPT !.err = e, !.state = REJECTED, !.resolveList = <<>>],
              !.stack = DestroyFrames(cell.resolveList)
                        \o <<LoopFrame("eloop", c, e, cell.rejectList)>> \o @,
              !.reent = @ \/ InDispatch(m, c)]

\* one turn of `for (auto fn : list) fn(arg);`, and the list.clear() after it
LoopStep(m, f) ==
    LET live == IF f.k = "rloop" THEN m.cells[f.c].resolveList ELSE m.cells[f.c].rejectList
        invoke == Replace(m, <<CallFrame(f.lst[f.i], f.arg)>> \o HeldFrames(f.lst[f.i])
                             \o <<[f EXCEPT !.i = @ + 1]>>)
        cleared == IF f.k = "rloop"
                   THEN [m EXCEPT !.cells[f.c].resolveList = <<>>]
                   ELSE [m EXCEPT !.cells[f.c].rejectList = <<>>]
    IN  IF f.i > Len(f.lst)
        THEN {Replace(cleared, DestroyFrames(live))}
        ELSE IF live # f.lst
        THEN \* the vector was cleared under the loop's iterators: undefined
             \* behaviour; the stale element is invoked, or the process dies
             {[invoke EXCEPT !.ub = TRUE], [m EXCEPT !.ub = TRUE, !.crash = "ub"]}
        ELSE {invoke}

\* then's onDone is invoked: the value the handler returns resolves the
\* derived cell; what it throws rejects it
ThenCall(m, f) ==
    LET cb == f.cb
        m1 == [Pop(m) EXCEPT !.hinv[cb.q].pipeS = Bump(@)]
    IN  IF cb.hk = "map"
        THEN StateData_resolve(m1, cb.q, Apply(f.arg))
        ELSE StateData_reject(m1, cb.q, ErrHandler)

\* a std::function is invoked
CallStep(m, f) ==
    LET cb == f.cb IN
    IF cb.k \in {"userS", "userF"}
    THEN LET m1 == [Pop(m) EXCEPT !.fired = Append(@, <<cb.id, cb.k, f.arg>>),
                                  !.ninv[cb.id][cb.k] = Bump(@),
                                  !.exc = IF cb.thr THEN ErrCallback ELSE "none"]
         IN  IF cb.hk = "settleR" THEN StateData_resolve(m1, cb.q, "v1")
             ELSE IF cb.hk = "settleE" THEN StateData_reject(m1, cb.q, "e1")
             ELSE m1
    ELSE IF cb.k = "fwdR" THEN StateData_resolve(Pop(m), cb.q, f.arg)
    ELSE IF cb.k = "fwdE" THEN StateData_reject(Pop(m), cb.q, f.arg)
    ELSE IF cb.k = "thenS" THEN ThenCall(m, f)
    ELSE \* thenPipe's lambda: try { res = handler(arg); res.done(onDone2, onFail2); }
        LET m1 == [m EXCEPT !.hinv[cb.q][cb.k] = Bump(@)] IN
        IF cb.hk = "ret"
        THEN Replace(m1, <<DoneFrame(cb.hc, FwdResolve(cb.q), FwdReject(cb.q)), TryFrame(cb.q)>>)
        ELSE IF cb.hk = "unbound"
        THEN Replace(m1, <<DoneFrame(NoCell, FwdResolve(cb.q), FwdReject(cb.q)), TryFrame(cb.q)>>)
        ELSE [Replace(m1, <<TryFrame(cb.q)>>)
                EXCEPT !.exc = IF cb.hk = "throwStd" THEN ErrHandler ELSE ErrNonStd]

\* done, had it returned silently on an invalid Promise
DoneStep_Silent(m, f) ==
    IF f.c = NoCell
    THEN Pop(m)
    ELSE Replace(m, <<[Frame("doneF") EXCEPT !.c = f.c, !.cb = f.cb2],
                      [Frame("doneS") EXCEPT !.c = f.c, !.cb = f.cb]>>
                    \o HeldFrames(f.cb) \o HeldFrames(f.cb2))

\* Promise::done(cbSuccess, cbFail): the validity test, then fail(cbFail),
\* then the success half
DoneStep(m, f) ==
    IF f.c = NoCell
    THEN [Pop(m) EXCEPT !.exc = ErrInvalid]
    ELSE Replace(m, <<[Frame("doneF") EXCEPT !.c = f.c, !.cb = f.cb2],
                      [Frame("doneS") EXCEPT !.c = f.c, !.cb = f.cb]>>
                    \o HeldFrames(f.cb) \o HeldFrames(f.cb2))

\* Promise::fail(cbFail)
FailStep(m, f) ==
    IF f.c = NoCell
    THEN [Pop(m) EXCEPT !.exc = ErrInvalid]
    ELSE Replace(m, <<[Frame("doneF") EXCEPT !.c = f.c, !.cb = f.cb]>>)

\* the body of fail after the validity test
DoneFailHalf(m, f) ==
    LET cell == m.cells[f.c] IN
    IF f.cb.k = "null" THEN Pop(m)
    ELSE IF cell.state = PENDING
    THEN [Pop(m) EXCEPT !.cells[f.c].rejectList = Append(@, f.cb)]
    ELSE IF cell.state = REJECTED
    THEN Replace(m, <<CallFrame(f.cb, cell.err)>>)
    ELSE Pop(m)

\* done, had it queued the callback whatever the state of the cell
DoneSuccessHalf_AlwaysQueues(m, f) ==
    IF f.cb.k = "null" THEN Pop(m)
    ELSE [Pop(m) EXCEPT !.cells[f.c].resolveList = Append(@, f.cb)]

\* the body of done after fail(cbFail) has returned
DoneSuccessHalf(m, f) ==
    LET cell == m.cells[f.c] IN
    IF f.cb.k = "null" THEN Pop(m)
    ELSE IF cell.state = PENDING
    THEN [Pop(m) EXCEPT !.cells[f.c].resolveList = Append(@, f.cb)]
    ELSE IF cell.state = RESOLVED
    THEN Replace(m, <<CallFrame(f.cb, cell.value)>>)
    ELSE Pop(m)

\* ~StateData() of cell c begins: the last shared_ptr to it was released
Destructor(m, c) ==
    LET cell == m.cells[c]
        m1 == [m EXCEPT !.cells[c].life = "dying", !.stack = <<DtorFrame(c)>> \o @]
    IN  IF cell.state = PENDING /\ Len(cell.rejectList) > 0
        THEN StateData_reject(m1, c, ErrAbandoned)
        ELSE m1

\* the body of ~StateData has returned: the members are destroyed
\* (rejectList, declared last, first) and the object is gone
DtorStep(m, f) ==
    LET cell == m.cells[f.c] IN
    Replace([m EXCEPT !.cells[f.c] = DeadCell],
            DestroyFrames(cell.rejectList \o cell.resolveList))

\* one shared_ptr release
GcStep(m, f) ==
    LET c == Head(f.cs)
        m1 == Replace(m, GcFrames(Tail(f.cs)))
    IN  IF m.cells[c].life = "live" /\ ~HasRef(m1, c) THEN Destructor(m1, c) ELSE m1

\* one std::function of a cleared list is destroyed
DestroyStep(m, f) ==
    Replace(m, GcFrames(CapSeq(Head(f.lst))) \o DestroyFrames(Tail(f.lst)))

\* an exception passes the innermost frame
UnwindStep(m, f) ==
    IF f.k = "try"
    THEN IF IsStdException(m.exc)
         THEN \* catch (std::exception e) { dfd.reject(std::current_exception()); }
              StateData_reject([Pop(m) EXCEPT !.exc = "none"], f.c, m.exc)
         ELSE Pop(m)
    ELSE IF f.k = "dtor"
    THEN [m EXCEPT !.crash = "terminate"]
    ELSE IF FrameRefSeq(f) = <<>>
    THEN Pop(m)
    ELSE \* the frame's copies are destroyed before the exception goes on
         [Replace(m, GcFrames(FrameRefSeq(f)) \o <<UnwindFrame(m.exc)>>) EXCEPT !.exc = "none"]

\* the successors of a machine state with a non-empty stack
Step(m) ==
    LET f == Head(m.stack) IN
    IF m.exc # "none" THEN {UnwindStep(m, f)}
    ELSE IF f.k \in {"rloop", "eloop"} THEN LoopStep(m, f)
    ELSE IF f.k = "call" THEN {CallStep(m, f)}
    ELSE IF f.k = "done" THEN {DoneStep(m, f)}
    ELSE IF f.k = "fail" THEN {FailStep(m, f)}
    ELSE IF f.k = "doneF" THEN {DoneFailHalf(m, f)}
    ELSE IF f.k = "doneS" THEN {DoneSuccessHalf(m, f)}
    ELSE IF f.k = "destroy" THEN {DestroyStep(m, f)}
    ELSE IF f.k = "gc" THEN {GcStep(m, f)}
    ELSE IF f.k = "dtor" THEN {DtorStep(m, f)}
    ELSE IF f.k = "held" THEN {Replace(m, GcFrames(CapSeq(f.cb)))}
    ELSE IF f.k = "holdc" THEN {Replace(m, GcFrames(<<f.c>>))}
    ELSE IF f.k = "bind"
    THEN {[Pop(m) EXCEPT !.handles[f.h] = [kind |-> "P", cell |-> f.c, fam |-> f.c]]}
    ELSE IF f.k = "unwind" THEN {[Pop(m) EXCEPT !.exc = f.arg]}
    ELSE {Pop(m)}   \* "try": the try block ended normally

\* the machine states in which the public operation has returned, thrown
\* (exc is set) or killed the process
RECURSIVE Run(_)
Run(m) ==
    IF m.crash # "no" \/ m.stack = <<>> THEN {m}
    ELSE IF Len(m.stack) > MaxDepth THEN {[m EXCEPT !.crash = "overflow"]}
    ELSE UNION {Run(n) : n \in Step(m)}

\* ------------------------------------------------------------------ state
VARIABLES
    budget,    \* the scenario of this run (never changes)
    cells,     \* CellId -> the StateData (or FreeCell / DeadCell)
    handles,   \* HandleId -> [kind: "free" | "D" (Deferred) | "P" (Promise),
               \*   cell: its m_data (NoCell: an empty shared_ptr),
               \*   fam: the cell of the Deferred it was copied or obtained from]
    used,      \* operations made so far: [cb: done / fail calls with application
               \*   callbacks, fwd: resolve(Promise) calls, pipe: thenPipe calls,
               \*   settle: resolve(v) / reject(e) / invalidate() calls]
    ninv,      \* CbId -> times its success / failure callback was invoked
    hinv,      \* CellId q -> the thenPipe call that made q: src (the cell it was
               \*   called on), hk / hc (its handler), and the times its
               \*   success / failure handler ran (pipeS / pipeF)
    fired,     \* the application callbacks the last operation invoked, in
               \*   order: <<id, "userS" | "userF", argument>>
    escaped,   \* the exception the last operation threw to its caller, or "none"
    crashed,   \* "no", or how the last operation killed the process
    ub,        \* the last operation ran into undefined behaviour
    reent,     \* the last operation settled a cell inside that cell's dispatch
    threads    \* the two threads of SpecThreads (NoThreads in Spec, where the
               \*   application is one thread)

vars == <<budget, cells, handles, used, ninv, hinv, fired, escaped, crashed, ub, reent, threads>>

FreeHandle == [kind |-> "free", cell |-> NoCell, fam |-> NoCell]

\* the application calls into the cells from one thread only
NoThreads == [on |-> FALSE]

\* The application's handles are anonymous variables: the table is kept in
\* one canonical order (bound Deferreds, Promises, free slots), so that two
\* states that differ only in which variable holds which handle are one.
HandleKey(x) ==
    (IF x.kind = "D" THEN 0 ELSE IF x.kind = "P" THEN 1 ELSE 2) * (MaxCells + 1) * (MaxCells + 1)
    + x.cell * (MaxCells + 1) + x.fam
HandleBefore(x, y) == HandleKey(x) < HandleKey(y)
Canon(hs) == SortSeq(hs, HandleBefore)

Init ==
    /\ budget \in Scenarios
    /\ cells = [c \in CellId |-> FreeCell]
    /\ handles = [h \in HandleId |-> FreeHandle]
    /\ used = [cb |-> 0, fwd |-> 0, pipe |-> 0, settle |-> 0]
    /\ ninv = [i \in CbId |-> [userS |-> 0, userF |-> 0]]
    /\ hinv = [c \in CellId |-> [src |-> NoCell, hk |-> "none", hc |-> NoCell,
                                 pipeS |-> 0, pipeF |-> 0]]
    /\ fired = <<>>
    /\ escaped = "none"
    /\ crashed = "no"
    /\ ub = FALSE
    /\ reent = FALSE
    /\ threads = NoThreads

\* the machine state in which a public operation starts running `stack`
Machine(cs, hs, stack) ==
    [cells |-> cs, handles |-> hs, stack |-> stack, exc |-> "none", crash |-> "no",
     fired |-> <<>>, ninv |-> ninv, hinv |-> hinv, ub |-> FALSE, reent |-> FALSE]

\* the operation ran from m0 to its end: its outcome becomes the next state
Exec(m0, n) ==
    \E m \in Run(m0) :
        /\ budget' = budget
        /\ cells' = m.cells
        /\ handles' = Canon(m.handles)
        /\ used' = n
        /\ ninv' = m.ninv
        /\ hinv' = m.hinv
        /\ fired' = m.fired
        /\ escaped' = m.exc
        /\ crashed' = m.crash
        /\ ub' = m.ub
        /\ reent' = m.reent
        /\ threads' = threads

Min(S) == CHOOSE x \in S : \A y \in S : x <= y
FreeSlots ==
    IF Cardinality({h \in HandleId : handles[h].kind # "free"}) < budget.handles
    THEN {h \in HandleId : handles[h].kind = "free"} ELSE {}
FreshCells ==
    IF Cardinality({c \in CellId : cells[c].life # "free"}) < budget.cells
    THEN {c \in CellId : cells[c].life = "free"} ELSE {}
Bound(h) == handles[h].kind # "free" /\ handles[h].cell # NoCell
Held == {c \in CellId : \E h \in HandleId : Bound(h) /\ handles[h].cell = c}

\* -------------------------------------------------------------- operations
\* Deferred(), Deferred(T v), Deferred(exception_ptr ep)
Deferred_new(st, v, e) ==
    /\ crashed = "no" /\ FreeSlots # {} /\ FreshCells # {}
    /\ st # PENDING => budget.pre
    /\ LET h == Min(FreeSlots)
           c == Min(FreshCells)
       IN  Exec(Machine([cells EXCEPT ![c] = StateData(st, v, e)],
                        [handles EXCEPT ![h] = [kind |-> "D", cell |-> c, fam |-> c]], <<>>),
                used)

\* Promise(): an invalid Promise
Promise_new ==
    /\ crashed = "no" /\ FreeSlots # {} /\ budget.unbound
    /\ LET h == Min(FreeSlots) IN
       Exec(Machine(cells, [handles EXCEPT ![h] = [kind |-> "P", cell |-> NoCell, fam |-> NoCell]], <<>>),
            used)

\* the m_data of a copy: Deferred(const Deferred&), Promise(const Promise&)
CopyData(h) == handles[h].cell

\* the copy constructors of Deferred and Promise
Copy(h) ==
    /\ crashed = "no" /\ FreeSlots # {} /\ handles[h].kind # "free" /\ budget.share
    /\ LET h2 == Min(FreeSlots) IN
       Exec(Machine(cells, [handles EXCEPT ![h2] = [handles[h] EXCEPT !.cell = CopyData(h)]], <<>>),
            used)

\* the m_data of the Promise that promise() returns
PromiseData(h) == handles[h].cell

\* Deferred::promise()
Deferred_promise(h) ==
    /\ crashed = "no" /\ FreeSlots # {} /\ handles[h].kind = "D" /\ budget.share
    /\ LET h2 == Min(FreeSlots) IN
       Exec(Machine(cells, [handles EXCEPT ![h2] = [kind |-> "P", cell |-> PromiseData(h),
                                                   fam |-> handles[h].fam]], <<>>),
            used)

\* ~Deferred(), ~Promise(): the handle's shared_ptr is released
Drop(h) ==
    /\ crashed = "no" /\ handles[h].kind # "free"
    /\ LET c == handles[h].cell IN
       Exec(Machine(cells, [handles EXCEPT ![h] = FreeHandle],
                    IF c = NoCell THEN <<>> ELSE GcFrames(<<c>>)),
            used)

\* Deferred::resolve(T v)
Deferred_resolve(h, v) ==
    /\ crashed = "no" /\ handles[h].kind = "D" /\ used.settle < budget.settle
    /\ LET c == handles[h].cell IN
       Exec(StateData_resolve(Machine(cells, handles, <<>>), c, v),
            [used EXCEPT !.settle = @ + 1])

\* Deferred::reject(exception_ptr ep)
Deferred_reject(h, e) ==
    /\ crashed = "no" /\ handles[h].kind = "D" /\ used.settle < budget.settle
    /\ LET c == handles[h].cell IN
       Exec(StateData_reject(Machine(cells, handles, <<>>), c, e),
            [used EXCEPT !.settle = @ + 1])

\* Deferred::invalidate()
Deferred_invalidate(h) ==
    /\ crashed = "no" /\ handles[h].kind = "D" /\ used.settle < budget.settle
    /\ LET c == handles[h].cell
           m0 == Machine(cells, handles, <<>>)
       IN  Exec(IF cells[c].state = PENDING THEN StateData_reject(m0, c, ErrInvalidated) ELSE m0,
                [used EXCEPT !.settle = @ + 1])

\* Deferred::resolve(Promise<T> v); the promise is the one held in hp, or
\* the temporary hp.promise() when hp is a Deferred
Deferred_resolvePromise(h, hp) ==
    /\ crashed = "no" /\ handles[h].kind = "D" /\ handles[hp].kind # "free"
    /\ used.fwd < budget.fwd
    /\ LET c == handles[h].cell
           p == handles[hp].cell
       IN  Exec(Machine(cells, handles, <<DoneFrame(p, FwdResolve(c), FwdReject(c))>>),
                [used EXCEPT !.fwd = @ + 1])

\* Promise::done(cbSuccess) and Promise::done(cbSuccess, cbFail) with
\* application callbacks; thrS / thrF: whether the callback throws
Promise_done(h, withFail, thrS, thrF) ==
    /\ crashed = "no" /\ handles[h].kind # "free" /\ used.cb < budget.cb
    /\ LET c == handles[h].cell
           id == used.cb + 1
       IN  Exec(Machine(cells, handles,
                        <<DoneFrame(c, UserCb("userS", id, thrS),
                                    IF withFail THEN UserCb("userF", id, thrF) ELSE NullCb)>>),
                [used EXCEPT !.cb = id])

\* Promise::fail(cbFail) with an application callback
Promise_fail(h, thr) ==
    /\ crashed = "no" /\ handles[h].kind # "free" /\ used.cb < budget.cb
    /\ LET c == handles[h].cell
           id == used.cb + 1
       IN  Exec(Machine(cells, handles, <<FailFrame(c, UserCb("userF", id, thr))>>),
                [used EXCEPT !.cb = id])

\* Promise::done(cbSuccess, cbFail) with application callbacks that settle
\* the promise's own cell through a Deferred they captured: cbSuccess
\* rejects it, cbFail resolves it
Promise_doneSettling(h) ==
    /\ crashed = "no" /\ Bound(h) /\ used.cb < budget.cb /\ budget.inner
    /\ LET c == handles[h].cell
           id == used.cb + 1
       IN  Exec(Machine(cells, handles,
                        <<DoneFrame(c, SettlingCb("userS", id, c), SettlingCb("userF", id, c))>>),
                [used EXCEPT !.cb = id])

\* Promise::done(nullptr) and Promise::done(nullptr, cbFail)
Promise_doneNull(h, withFail, thrF) ==
    /\ crashed = "no" /\ handles[h].kind # "free" /\ budget.pre
    /\ withFail => used.cb < budget.cb
    /\ LET c == handles[h].cell
           id == used.cb + 1
       IN  Exec(Machine(cells, handles,
                        <<DoneFrame(c, NullCb,
                                    IF withFail THEN UserCb("userF", id, thrF) ELSE NullCb)>>),
                IF withFail THEN [used EXCEPT !.cb = id] ELSE used)

\* Promise::fail(nullptr)
Promise_failNull(h) ==
    /\ crashed = "no" /\ handles[h].kind # "free" /\ budget.pre
    /\ LET c == handles[h].cell IN
       Exec(Machine(cells, handles, <<FailFrame(c, NullCb)>>), used)

\* the handlers an application can pass to thenPipe: one that returns a
\* promise it holds, one that returns an invalid Promise, one that throws
Handlers ==
    {<<"ret", c>> : c \in Held} \cup {<<k, NoCell>> : k \in HandlerKind \ {"ret"}}

\* thenPipe, had it not tested m_data before registering
ThenPipe_NoValidityTest(h, onDoneOf, onFailOf) ==
    /\ crashed = "no" /\ handles[h].kind # "free"
    /\ FreeSlots # {} /\ FreshCells # {} /\ used.pipe < budget.pipe
    /\ LET c == handles[h].cell
           h2 == Min(FreeSlots)
           q == Min(FreshCells)
       IN  Exec([Machine([cells EXCEPT ![q] = StateData(PENDING, NoVal, NoErr)], handles,
                         <<DoneFrame(c, onDoneOf[q], onFailOf[q]),
                           BindFrame(h2, q), HoldCellFrame(q)>>)
                    EXCEPT !.hinv[q].src = c, !.hinv[q].hk = onDoneOf[q].hk,
                           !.hinv[q].hc = onDoneOf[q].hc],
                [used EXCEPT !.pipe = @ + 1])

\* Promise::thenPipe: the common body of both overloads; onFail is the
\* plain forwarder (one handler) or the lambda around cbFail (two handlers)
ThenPipe(h, onDoneOf, onFailOf) ==
    /\ crashed = "no" /\ handles[h].kind # "free"
    /\ FreeSlots # {} /\ FreshCells # {} /\ used.pipe < budget.pipe
    /\ LET c == handles[h].cell
           h2 == Min(FreeSlots)
           q == Min(FreshCells)
           m0 == [Machine([cells EXCEPT ![q] = StateData(PENDING, NoVal, NoErr)], handles,
                          <<BindFrame(h2, q), HoldCellFrame(q)>>)
                     EXCEPT !.hinv[q].src = c, !.hinv[q].hk = onDoneOf[q].hk,
                            !.hinv[q].hc = onDoneOf[q].hc]
       IN  IF c = NoCell
           THEN \* return Promise<Uout>::rejected(...): a Deferred is made,
                \* rejected, and its promise returned
                Exec(StateData_reject(m0, q, ErrInvalid), [used EXCEPT !.pipe = @ + 1])
           ELSE Exec([m0 EXCEPT !.stack = <<DoneFrame(c, onDoneOf[q], onFailOf[q])>> \o @],
                     [used EXCEPT !.pipe = @ + 1])

\* then(cbSuccess) on a valid Promise
Promise_then(h, hk) ==
    /\ crashed = "no" /\ Bound(h)
    /\ FreeSlots # {} /\ FreshCells # {} /\ used.pipe < budget.pipe
    /\ LET c == handles[h].cell
           h2 == Min(FreeSlots)
           q == Min(FreshCells)
       IN  Exec([Machine([cells EXCEPT ![q] = StateData(PENDING, NoVal, NoErr)], handles,
                         <<DoneFrame(c, ThenDone(q, hk), FwdReject(q)),
                           BindFrame(h2, q), HoldCellFrame(q)>>)
                    EXCEPT !.hinv[q].src = c, !.hinv[q].hk = hk],
                [used EXCEPT !.pipe = @ + 1])

\* thenPipe(cbSuccess)
Promise_thenPipe(h, hs) ==
    ThenPipe(h, [q \in CellId |-> PipeDone(q, hs[1], hs[2])],
                [q \in CellId |-> FwdReject(q)])

\* thenPipe(cbSuccess, cbFail)
Promise_thenPipe2(h, hs, hf) ==
    ThenPipe(h, [q \in CellId |-> PipeDone(q, hs[1], hs[2])],
                [q \in CellId |-> PipeFail(q, hf[1], hf[2])])

Next ==
    \/ Deferred_new(PENDING, NoVal, NoErr)
    \/ \E v \in Val : Deferred_new(RESOLVED, v, NoErr)
    \/ \E e \in UserErr : Deferred_new(REJECTED, NoVal, e)
    \/ Promise_new
    \/ \E h \in HandleId : Copy(h)
    \/ \E h \in HandleId : Deferred_promise(h)
    \/ \E h \in HandleId : Drop(h)
    \/ \E h \in HandleId, v \in Val : Deferred_resolve(h, v)
    \/ \E h \in HandleId, e \in UserErr : Deferred_reject(h, e)
    \/ \E h \in HandleId : Deferred_invalidate(h)
    \/ \E h, hp \in HandleId : Deferred_resolvePromise(h, hp)
    \/ \E h \in HandleId, thrS, thrF \in BOOLEAN : Promise_done(h, TRUE, thrS, thrF)
    \/ \E h \in HandleId, thrS \in BOOLEAN : Promise_done(h, FALSE, thrS, FALSE)
    \/ \E h \in HandleId, thr \in BOOLEAN : Promise_fail(h, thr)
    \/ \E h \in HandleId : Promise_doneSettling(h)
    \/ \E h \in HandleId, thrF \in BOOLEAN : Promise_doneNull(h, TRUE, thrF)
    \/ \E h \in HandleId : Promise_doneNull(h, FALSE, FALSE)
    \/ \E h \in HandleId : Promise_failNull(h)
    \/ \E h \in HandleId, hk \in ThenKind : Promise_then(h, hk)
    \/ \E h \in HandleId, hs \in Handlers : Promise_thenPipe(h, hs)
    \/ \E h \in HandleId, hs \in Handlers : Promise_thenPipe2(h, hs, hs)

Spec == Init /\ [][Next]_vars

\* ----------------------------------------------------------------- claims
Live(c) == cells[c].life = "live"

\* every cell of the run was built Pending, by Deferred()
BuiltPending == ~budget.pre
CellOf(h) == handles[h].cell

\* C1: once a cell has left Pending, no later resolve, reject or invalidate
\* changes its state: a reject after a resolve leaves it Resolved, a resolve
\* after a reject leaves it Rejected.
C1_SettledStateIsFinal ==
    [][\A c \in CellId :
         (BuiltPending /\ Live(c) /\ cells[c].state # PENDING /\ cells'[c].life = "live")
         => cells'[c].state = cells[c].state]_vars

\* C2: a resolve(v2) on a cell that is already Resolved with v1 is ignored:
\* the cell keeps v1, which is what every done made afterwards is handed,
\* and no application callback is invoked by the second resolve.
C2_SecondResolveIgnored ==
    [][\A h \in HandleId, v2 \in Val :
         (Deferred_resolve(h, v2) /\ BuiltPending /\ cells[CellOf(h)].state = RESOLVED
            /\ cells[CellOf(h)].value # v2)
         => /\ cells'[CellOf(h)].state = RESOLVED
            /\ cells'[CellOf(h)].value = cells[CellOf(h)].value
            /\ fired' = <<>>]_vars

\* the invocations that dispatching the application callbacks of lst with
\* arg consists of: each once, in registration order
Dispatched(lst, arg) == [i \in DOMAIN lst |-> <<lst[i].id, lst[i].k, arg>>]

IsUserList(lst) == \A i \in DOMAIN lst : lst[i].k \in {"userS", "userF"}

\* C3: settling a Pending cell that holds N success and M failure callbacks
\* of the application invokes, for resolve(v), each success callback once
\* with v in registration order and no failure callback, and for reject(e)
\* each failure callback once with e in registration order and no success
\* callback; afterwards both lists of the cell are empty.
C3_SettleDispatchesAll ==
    [][\A h \in HandleId :
         LET c == CellOf(h)
             pre == cells[c].state = PENDING /\ IsUserList(cells[c].resolveList)
                    /\ IsUserList(cells[c].rejectList)
             emptied == cells'[c].resolveList = <<>> /\ cells'[c].rejectList = <<>>
         IN  /\ \A v \in Val :
                  (Deferred_resolve(h, v) /\ pre)
                  => fired' = Dispatched(cells[c].resolveList, v) /\ emptied
             /\ \A e \in UserErr :
                  (Deferred_reject(h, e) /\ pre)
                  => fired' = Dispatched(cells[c].rejectList, e) /\ emptied]_vars

\* C4: done(onSuccess) on a cell Resolved with v invokes onSuccess(v) once,
\* inside the call, and queues nothing; fail(onFail), or done with a failure
\* callback, on a cell Rejected with e invokes onFail(e) once, inside the
\* call, and queues nothing.
C4_LateRegistrationRunsNow ==
    [][\A h \in HandleId :
         LET c == CellOf(h)
             id == used.cb + 1
             unqueued == /\ cells'[c].resolveList = cells[c].resolveList
                         /\ cells'[c].rejectList = cells[c].rejectList
         IN  (used'.cb = id /\ c # NoCell)
             => /\ \A withFail, thrS, thrF \in BOOLEAN :
                     /\ (cells[c].state = RESOLVED /\ Promise_done(h, withFail, thrS, thrF))
                        => fired' = <<<<id, "userS", cells[c].value>>>> /\ unqueued
                     /\ (cells[c].state = REJECTED /\ withFail
                           /\ Promise_done(h, withFail, thrS, thrF))
                        => fired' = <<<<id, "userF", cells[c].err>>>> /\ unqueued
                /\ \A thr \in BOOLEAN :
                     (cells[c].state = REJECTED /\ Promise_fail(h, thr))
                     => fired' = <<<<id, "userF", cells[c].err>>>> /\ unqueued]_vars

\* C4 happens: a callback was handed the value of a cell that was built
\* Resolved, by the done call itself, and the lists of the cell are empty
C4_Witness ==
    \E c \in CellId, i \in CbId :
        /\ Live(c) /\ cells[c].state = RESOLVED /\ used.settle = 0
        /\ fired = <<<<i, "userS", cells[c].value>>>>
        /\ ninv[i].userS = 1
        /\ cells[c].resolveList = <<>> /\ cells[c].rejectList = <<>>

\* the Deferred objects on cell c: the application's, and the copies held by
\* the closures of resolve(Promise) and thenPipe
HasController(c) ==
    \/ \E h \in HandleId : handles[h].kind = "D" /\ handles[h].cell = c
    \/ \E d \in CellId :
         /\ cells[d].life = "live"
         /\ \/ \E i \in DOMAIN cells[d].resolveList : cells[d].resolveList[i].q = c
            \/ \E i \in DOMAIN cells[d].rejectList : cells[d].rejectList[i].q = c

\* C5: when the last Deferred of a Pending cell is gone the cell is Rejected
\* with the abandoned-deferred error, whether or not Promises on it are
\* still alive: no Promise is left on a Pending cell without a Deferred.
C5_NoOrphanedPending ==
    \A c \in CellId :
        (Live(c) /\ cells[c].state = PENDING /\ crashed = "no") => HasController(c)

\* the application callbacks of a list that one dispatch of it has reached
AllInvoked(lst, side) == \A i \in DOMAIN lst : ninv'[lst[i].id][side] >= 1

\* C6: every handle copied or obtained from one Deferred is on that
\* Deferred's cell, so all of them see one state, value and error; and one
\* settlement through any of them dispatches every callback that was
\* registered on the cell, through whichever handle.
C6_OneCellPerFamily ==
    [][/\ \A h1, h2 \in HandleId :
            (handles'[h1].kind # "free" /\ handles'[h2].kind # "free"
               /\ handles'[h1].fam = handles'[h2].fam)
            => handles'[h1].cell = handles'[h2].cell
       /\ \A h \in HandleId :
            LET c == CellOf(h) IN
            (used'.settle = used.settle + 1 /\ handles[h].kind = "D"
               /\ cells[c].state = PENDING
               /\ IsUserList(cells[c].resolveList) /\ IsUserList(cells[c].rejectList))
            => /\ \A v \in Val :
                    Deferred_resolve(h, v) => AllInvoked(cells[c].resolveList, "userS")
               /\ \A e \in UserErr :
                    Deferred_reject(h, e) => AllInvoked(cells[c].rejectList, "userF")]_vars

\* cell d has the forwarders of a d.resolve(p) queued on cell p
Linked(d, p) ==
    /\ Live(d) /\ Live(p)
    /\ \E i \in DOMAIN cells[p].resolveList : cells[p].resolveList[i] = FwdResolve(d)
    /\ \E i \in DOMAIN cells[p].rejectList : cells[p].rejectList[i] = FwdReject(d)

\* cell d has, after the step, the outcome that cell p has after the step
Follows(d, p) ==
    /\ cells'[d].state = cells'[p].state
    /\ cells'[p].state = RESOLVED => cells'[d].value = cells'[p].value
    /\ cells'[p].state = REJECTED => cells'[d].err = cells'[p].err

\* C7: d.resolve(p) makes d follow p: d becomes Resolved with v when p is
\* or becomes Resolved with v, Rejected with e when p is or becomes Rejected
\* with e, and stays Pending as long as p is Pending and nobody settles d.
C7_ResolveWithPromiseFollows ==
    [][/\ \A h, hp \in HandleId :
            LET d == CellOf(h)
                p == CellOf(hp)
            IN  (used'.fwd = used.fwd + 1 /\ handles[h].kind = "D" /\ p # NoCell
                   /\ cells[d].state = PENDING /\ Deferred_resolvePromise(h, hp))
                => Follows(d, p)
       /\ \A d, p \in CellId :
            (Linked(d, p) /\ cells[d].state = PENDING /\ cells[p].state = PENDING
               /\ cells'[p].life = "live" /\ cells'[d].life = "live")
            => \/ Follows(d, p)
               \/ cells'[p].state = PENDING /\ used'.settle = used.settle + 1]_vars

\* cell q was made by a thenPipe whose success handler has run and has
\* returned the promise on cell r
PipedTo(q, r) ==
    /\ Live(q) /\ hinv[q].pipeS >= 1 /\ hinv[q].hk = "ret" /\ hinv[q].hc = r /\ Live(r)

\* C8: for q = p.thenPipe(h): h runs once, and only when p is Resolved,
\* with p's value; from then on q has the outcome of the promise r that h
\* returned: Resolved with u when r is, Rejected with e when r is, Pending
\* while r is Pending.
C8_ThenPipeMirrors ==
    [][\A q \in CellId :
         LET p == hinv'[q].src IN
         /\ hinv'[q].pipeS <= 1
         /\ hinv'[q].pipeS > hinv[q].pipeS => cells'[p].state = RESOLVED
         /\ (p # NoCell /\ hinv'[q].hk # "none" /\ cells[p].life = "live"
               /\ cells[p].state = PENDING /\ cells'[p].state = RESOLVED)
            => hinv'[q].pipeS = 1
         /\ (crashed' = "no" /\ \E r \in CellId : PipedTo(q, r)')
            => Follows(q, hinv'[q].hc)]_vars

\* the exception a handler of kind hk ends with
Thrown(hk) ==
    IF hk = "throwStd" THEN ErrHandler ELSE IF hk = "throwOther" THEN ErrNonStd ELSE ErrInvalid

\* C9: whatever a thenPipe handler throws, and whatever registering on the
\* promise it returns throws, is turned into the rejection of the derived
\* promise and does not reach the caller of the resolve or reject that ran
\* the handler.
C9_HandlerFailureRejects ==
    [][\A q \in CellId :
         (used'.settle = used.settle + 1
            /\ hinv'[q].hk \in {"throwStd", "throwOther", "unbound"}
            /\ (hinv'[q].pipeS > hinv[q].pipeS \/ hinv'[q].pipeF > hinv[q].pipeF))
         => /\ escaped' # Thrown(hinv'[q].hk)
            /\ cells'[q].life = "live"
               => cells'[q].state = REJECTED /\ cells'[q].err = Thrown(hinv'[q].hk)]_vars

\* C10: no exception thrown by an application callback during dispatch
\* leaves resolve, reject or invalidate: they return normally.
C10_SettleNeverThrows ==
    [][used'.settle = used.settle + 1 => escaped' # ErrCallback]_vars

\* Promise::isValid()
Promise_isValid(h) == handles[h].cell # NoCell

\* C11: on a default-constructed Promise isValid() is false, and done and
\* fail, with any mix of null and non-null callbacks, throw "Promise
\* invalid": no callback is invoked or queued and no cell changes.
C11_InvalidPromiseThrows ==
    [][\A h \in HandleId :
         (handles[h].kind = "P" /\ handles[h].fam = NoCell)
         => /\ ~Promise_isValid(h)
            /\ ( \/ \E withFail, thrS, thrF \in BOOLEAN : Promise_done(h, withFail, thrS, thrF)
                 \/ \E withFail, thrF \in BOOLEAN : Promise_doneNull(h, withFail, thrF)
                 \/ \E thr \in BOOLEAN : Promise_fail(h, thr)
                 \/ Promise_failNull(h) )
               => /\ escaped' = ErrInvalid
                  /\ fired' = <<>> /\ ninv' = ninv
                  /\ cells' = cells]_vars

\* C11 happens: a done or fail on an invalid Promise has just thrown
C11_Witness ==
    /\ escaped = ErrInvalid /\ used.fwd = 0 /\ used.pipe = 0
    /\ \E h \in HandleId : handles[h].kind = "P" /\ handles[h].fam = NoCell
    /\ fired = <<>>

\* C12: invalidate() on a Pending cell rejects it with the invalidated
\* error, which is not the abandoned error, and invokes each queued failure
\* callback once, in registration order; on a Resolved or Rejected cell it
\* changes neither state, value nor error and invokes nothing.
C12_InvalidateRejectsPending ==
    [][\A h \in HandleId :
         LET c == CellOf(h) IN
         (used'.settle = used.settle + 1 /\ handles[h].kind = "D" /\ Deferred_invalidate(h))
         => /\ (cells[c].state = PENDING /\ IsUserList(cells[c].rejectList)
                  /\ IsUserList(cells[c].resolveList))
               => /\ cells'[c].state = REJECTED
                  /\ cells'[c].err = ErrInvalidated /\ ErrInvalidated # ErrAbandoned
                  /\ fired' = Dispatched(cells[c].rejectList, ErrInvalidated)
            /\ cells[c].state # PENDING
               => cells'[c] = cells[c] /\ fired' = <<>>]_vars

\* cell q was made by a thenPipe called on an invalid Promise
FromInvalid(q) == hinv[q].hk # "none" /\ hinv[q].src = NoCell

\* C13: thenPipe on an invalid Promise throws nothing and runs no handler;
\* it returns a valid Promise on a new cell that is already Rejected with
\* "Promise invalid", so that a fail callback registered on the result is
\* invoked inside the fail call.
C13_ThenPipeOnInvalid ==
    [][/\ \A h \in HandleId :
            (used'.pipe = used.pipe + 1 /\ handles[h].kind = "P" /\ ~Promise_isValid(h)
               /\ \E hs \in Handlers : Promise_thenPipe(h, hs) \/ Promise_thenPipe2(h, hs, hs))
            => /\ escaped' = "none" /\ fired' = <<>>
               /\ \A c \in CellId : hinv'[c].pipeS = 0 /\ hinv'[c].pipeF = 0
               /\ \E h2 \in HandleId, q \in CellId :
                    /\ cells[q].life = "free"
                    /\ handles'[h2] = [kind |-> "P", cell |-> q, fam |-> q]
                    /\ cells'[q] = StateData(REJECTED, NoVal, ErrInvalid)
       /\ \A h \in HandleId :
            (used'.cb = used.cb + 1 /\ Promise_isValid(h) /\ FromInvalid(CellOf(h))
               /\ \E thr \in BOOLEAN : Promise_fail(h, thr))
            => fired' = <<<<used'.cb, "userF", ErrInvalid>>>>]_vars

\* C13 happens: a fail callback registered on the result of a thenPipe on
\* an invalid Promise was handed "Promise invalid"
C13_Witness ==
    \E q \in CellId :
        /\ FromInvalid(q) /\ Live(q) /\ cells[q].state = REJECTED
        /\ fired = <<<<1, "userF", ErrInvalid>>>>
        /\ escaped = "none"

\* cell q was made by a then with a handler that returns a value
MappedFrom(q, p) == hinv[q].hk = "map" /\ hinv[q].src = p

\* C14: for q = p.then(onSuccess), when p is or becomes Resolved with v,
\* onSuccess is invoked exactly once, with v, and q becomes Resolved with
\* the value onSuccess returned; q's cell is a new one, not p's.
C14_ThenMapsValue ==
    [][\A q, p \in CellId :
         /\ MappedFrom(q, p)' => (q # p /\ hinv'[q].pipeS <= 1)
         /\ (MappedFrom(q, p)' /\ cells'[q].life = "live" /\ cells'[p].life = "live"
               /\ cells[p].state = PENDING /\ cells'[p].state = RESOLVED)
            => /\ hinv'[q].pipeS = 1
               /\ cells'[q].state = RESOLVED /\ cells'[q].value = Apply(cells'[p].value)
         /\ (MappedFrom(q, p)' /\ ~MappedFrom(q, p) /\ cells[p].state = RESOLVED)
            => /\ hinv'[q].pipeS = 1
               /\ cells'[q].state = RESOLVED /\ cells'[q].value = Apply(cells[p].value)]_vars

\* C15: the payload of a cell fits its state: a Pending cell has neither a
\* value nor an error, a Resolved cell a value and no error, a Rejected
\* cell an error and no value; no cell has both.
C15_PayloadFitsState ==
    \A c \in CellId :
        Live(c) =>
            /\ cells[c].state = PENDING => cells[c].value = NoVal /\ cells[c].err = NoErr
            /\ cells[c].state = RESOLVED => cells[c].value # NoVal /\ cells[c].err = NoErr
            /\ cells[c].state = REJECTED => cells[c].err # NoErr /\ cells[c].value = NoVal

\* C16: between operations, a Resolved or Rejected cell has an empty
\* success list and an empty failure list.
C16_SettledListsEmpty ==
    \A c \in CellId :
        (crashed = "no" /\ Live(c) /\ cells[c].state # PENDING)
        => cells[c].resolveList = <<>> /\ cells[c].rejectList = <<>>

\* C17: no registered callback is ever invoked more than once.
C17_AtMostOnce ==
    \A i \in CbId : ninv[i].userS <= 1 /\ ninv[i].userF <= 1

\* C18: resolve(v) on a Pending cell comes to an end, also when a queued
\* callback settles the same cell again during the dispatch: the process
\* does not die in unbounded recursion and, unless an exception left the
\* call, the cell ends Resolved with v and with both lists empty.
C18_ResolveTerminates ==
    [][\A h \in HandleId, v \in Val :
         LET c == CellOf(h) IN
         (used'.settle = used.settle + 1 /\ handles[h].kind = "D"
            /\ cells[c].state = PENDING /\ Deferred_resolve(h, v))
         => /\ crashed' = "no"
            /\ escaped' = "none"
               => /\ cells'[c].state = RESOLVED /\ cells'[c].value = v
                  /\ cells'[c].resolveList = <<>> /\ cells'[c].rejectList = <<>>]_vars

\* the success handler of the thenPipe that made q runs in this step and
\* fails: it throws, or the promise it returns is invalid or Rejected
HandlerFails(q) ==
    /\ hinv'[q].pipeS > hinv[q].pipeS
    /\ \/ hinv'[q].hk \in {"throwStd", "throwOther", "unbound"}
       \/ hinv'[q].hk = "ret" /\ cells[hinv'[q].hc].state = REJECTED

\* C19: when the handler given to p.thenPipe fails on a p that is Resolved
\* with v, p stays Resolved with v and gets no error, and the derived
\* promise, as long as somebody holds it, is Rejected.
C19_HandlerFailureLeavesSource ==
    [][\A q \in CellId :
         LET p == hinv'[q].src IN
         HandlerFails(q)
         => /\ cells'[p].state = RESOLVED /\ cells'[p].err = NoErr
            /\ cells[p].state = RESOLVED => cells'[p].value = cells[p].value
            /\ cells'[q].life = "live" => cells'[q].state = REJECTED]_vars

\* cell p has queued the closures of a q = p.thenPipe(cbSuccess): the
\* lambda around the handler and the plain forwarder of failures
PipeQueued(q, p) ==
    /\ Live(p) /\ cells[p].state = PENDING
    /\ \E i \in DOMAIN cells[p].resolveList :
         cells[p].resolveList[i].k = "pipeS" /\ cells[p].resolveList[i].q = q
    /\ \E i \in DOMAIN cells[p].rejectList : cells[p].rejectList[i] = FwdReject(q)

\* C20: for q = p.thenPipe(cbSuccess) without a failure handler, when p is
\* or becomes Rejected with e, q becomes Rejected with e and cbSuccess is
\* not invoked.
C20_ThenPipeForwardsFailure ==
    [][/\ \A h \in HandleId :
            LET p == CellOf(h) IN
            (used'.pipe = used.pipe + 1 /\ Promise_isValid(h) /\ cells[p].state = REJECTED
               /\ \E hs \in Handlers : Promise_thenPipe(h, hs))
            => \E q \in CellId :
                 /\ cells[q].life = "free" /\ cells'[q].life = "live"
                 /\ cells'[q].state = REJECTED /\ cells'[q].err = cells[p].err
                 /\ hinv'[q].pipeS = 0
       /\ \A q, p \in CellId :
            (PipeQueued(q, p) /\ cells'[p].life = "live" /\ cells'[p].state = REJECTED
               /\ cells'[q].life = "live")
            => /\ cells'[q].state = REJECTED /\ cells'[q].err = cells'[p].err
               /\ hinv'[q].pipeS = 0]_vars

\* cell p has queued the closures of a q = p.thenPipe(cbSuccess, cbFail):
\* the lambda around cbSuccess and the lambda around cbFail
Pipe2Queued(q, p) ==
    /\ Live(p) /\ cells[p].state = PENDING
    /\ \E i \in DOMAIN cells[p].resolveList :
         cells[p].resolveList[i].k = "pipeS" /\ cells[p].resolveList[i].q = q
    /\ \E i \in DOMAIN cells[p].rejectList :
         cells[p].rejectList[i].k = "pipeF" /\ cells[p].rejectList[i].q = q

\* after a step in which p was settled, the handlers of q ran as p's
\* outcome asks: the one that matches it once, the other one not, and q
\* has the outcome of the promise the handler returned, when that one has one
RanMatching(q, p) ==
    LET r == hinv'[q].hc IN
    /\ cells'[p].state = REJECTED => hinv'[q].pipeF = 1 /\ hinv'[q].pipeS = 0
    /\ cells'[p].state = RESOLVED => hinv'[q].pipeS = 1 /\ hinv'[q].pipeF = 0
    /\ (hinv'[q].hk = "ret" /\ cells'[r].life = "live" /\ cells'[q].life = "live")
       => /\ cells'[r].state = RESOLVED
             => cells'[q].state = RESOLVED /\ cells'[q].value = cells'[r].value
          /\ cells'[r].state = REJECTED
             => cells'[q].state = REJECTED /\ cells'[q].err = cells'[r].err

\* C21: for q = p.thenPipe(cbSuccess, cbFail), exactly one of the two
\* handlers is invoked, once, chosen by p's outcome: cbFail when p is
\* Rejected, cbSuccess when p is Resolved; q takes the outcome of the
\* promise the handler returned; the two handlers never both run.
C21_ThenPipe2RunsOneHandler ==
    [][/\ \A q, p \in CellId :
            (Pipe2Queued(q, p) /\ cells'[p].life = "live" /\ cells'[p].state # PENDING)
            => RanMatching(q, p)
       /\ \A h \in HandleId :
            LET p == CellOf(h) IN
            (used'.pipe = used.pipe + 1 /\ Promise_isValid(h) /\ cells[p].state # PENDING
               /\ \E hs \in Handlers : Promise_thenPipe2(h, hs, hs))
            => \E q \in CellId :
                 /\ cells[q].life = "free" /\ cells'[q].life # "free"
                 /\ RanMatching(q, p)
       /\ \A q \in CellId : hinv'[q].pipeF > 0 => hinv'[q].pipeF = 1 /\ hinv'[q].pipeS = 0]_vars

\* C23: of the two callbacks of one done(cbSuccess, cbFail) call at most one
\* is ever invoked, whatever resolve, reject and invalidate calls follow,
\* the ones made from inside a callback included.
C23_OneSideOnly ==
    \A i \in CbId : ninv[i].userS = 0 \/ ninv[i].userF = 0

\* the application failure callbacks queued on cell c were all invoked with
\* e in this step
FailuresInvoked(c, e) ==
    \A i \in DOMAIN cells[c].rejectList :
        cells[c].rejectList[i].k = "userF"
        => <<cells[c].rejectList[i].id, "userF", e>> \in Range(fired')

\* no application success callback queued on cell c was invoked in this step
NoSuccessInvoked(c) ==
    \A i \in DOMAIN cells[c].resolveList :
        cells[c].resolveList[i].k = "userS"
        => ninv'[cells[c].resolveList[i].id] = ninv[cells[c].resolveList[i].id]

\* C24: for q = p.thenPipe(h) on a Pending p: when the last reference to p
\* goes away, p is rejected with the abandoned error while it is destroyed,
\* q becomes Rejected with the same error and the failure callbacks queued
\* on q are invoked with it; a Pending cell with an empty failure list is
\* destroyed without invoking anything.
C24_AbandonmentPropagates ==
    [][/\ \A q, p \in CellId :
            (PipeQueued(q, p) /\ cells'[p].life # "live")
            => /\ cells'[q].life = "live"
                  => cells'[q].state = REJECTED /\ cells'[q].err = ErrAbandoned
               /\ cells[q].state = PENDING => FailuresInvoked(q, ErrAbandoned)
       /\ \A c \in CellId :
            (Live(c) /\ cells[c].state = PENDING /\ cells[c].rejectList = <<>>
               /\ cells'[c].life # "live"
               /\ used' = used /\ hinv' = hinv)   \* no settle call, no handler: c dies Pending
            => NoSuccessInvoked(c) /\ cells'[c].life = "dead" /\ crashed' = "no"]_vars

\* ------------------------------------------------ two threads on one cell
\* One thread registers on a Promise (done(cb), done(cb, f) or fail(f))
\* while another settles the cell through its Deferred (resolve(v) or
\* reject(e)).  Every statement of Promise::done / fail and of
\* StateData::resolve / reject is one step.  In threads:
\*   lock    whether the application wraps each call in one mutex
\*   holder  the thread inside the mutex (0: nobody, 1: reg, 2: set)
\*   reg     the registering thread: its call (op) and position (pc)
\*   set     the settling thread: its call (op, arg), position (pc) and the
\*           iterators of its for loop (i: the next element, n: the end)
ThreadCell == Min(CellId)

ThreadScenario ==
    [name |-> "threads", cells |-> MaxCells - 2, handles |-> MaxHandles - 1, cb |-> MaxCb,
     fwd |-> 0, pipe |-> 0, settle |-> MaxSettle - 1, share |-> TRUE, pre |-> FALSE,
     unbound |-> FALSE, inner |-> FALSE]

\* the callbacks the registering thread passes, and the ones that an
\* earlier done(cb, f) of the application queued
RegS == UserCb("userS", MaxCb - 1, FALSE)
RegF == UserCb("userF", MaxCb - 1, FALSE)
EarlierS == UserCb("userS", MaxCb, FALSE)
EarlierF == UserCb("userF", MaxCb, FALSE)

InitThreads ==
    /\ budget = ThreadScenario
    /\ \E earlier \in BOOLEAN :
         cells = [c \in CellId |->
                    IF c # ThreadCell THEN FreeCell
                    ELSE [StateData(PENDING, NoVal, NoErr) EXCEPT
                            !.resolveList = IF earlier THEN <<EarlierS>> ELSE <<>>,
                            !.rejectList = IF earlier THEN <<EarlierF>> ELSE <<>>]]
    /\ handles = Canon([h \in HandleId |->
                          IF h = MaxHandles THEN FreeHandle
                          ELSE [kind |-> IF h = MaxHandles - 1 THEN "P" ELSE "D",
                                cell |-> ThreadCell, fam |-> ThreadCell]])
    /\ used = [cb |-> MaxCb, fwd |-> 0, pipe |-> 0, settle |-> 0]
    /\ ninv = [i \in CbId |-> [userS |-> 0, userF |-> 0]]
    /\ hinv = [c \in CellId |-> [src |-> NoCell, hk |-> "none", hc |-> NoCell,
                                 pipeS |-> 0, pipeF |-> 0]]
    /\ fired = <<>>
    /\ escaped = "none"
    /\ crashed = "no"
    /\ ub = FALSE
    /\ reent = FALSE
    /\ threads \in {t \in [on : {TRUE}, lock : BOOLEAN, holder : {0},
                          reg : [op : {"done", "done2", "fail"}, pc : {"start"}],
                          set : [op : {"resolve", "reject"}, arg : Val \cup UserErr,
                                 pc : {"start"}, i : {0}, n : {0}]] :
                      (t.set.op = "resolve") <=> (t.set.arg \in Val)}

\* thread t is between the entry and the return of its call
Inside(t) == t.pc \notin {"start", "end"}

\* the two calls overlap with nothing ordering them: the reads and writes
\* of state and of the lists are a data race
Racing == ~threads.lock /\ Inside(threads.reg) /\ Inside(threads.set)

\* what a statement of a thread never changes
ThreadSame ==
    /\ threads.on /\ crashed = "no"
    /\ budget' = budget /\ handles' = handles /\ used' = used /\ hinv' = hinv
    /\ escaped' = escaped /\ reent' = reent /\ crashed' = crashed
    /\ ub' = (ub \/ Racing)

Quiet == fired' = fired /\ ninv' = ninv

Invoke(cb, arg) ==
    /\ fired' = Append(fired, <<cb.id, cb.k, arg>>)
    /\ ninv' = [ninv EXCEPT ![cb.id][cb.k] = Bump(@)]

\* a call is entered (inside the mutex, when the application uses one)
Enter(t, who, pc) ==
    /\ ThreadSame /\ Quiet /\ cells' = cells
    /\ threads[t].pc = "start"
    /\ threads.lock => threads.holder = 0
    /\ threads' = [threads EXCEPT ![t].pc = pc, !.holder = IF threads.lock THEN who ELSE 0]

\* a call returns
Leave(t) ==
    /\ ThreadSame /\ Quiet /\ cells' = cells
    /\ threads[t].pc = "ret"
    /\ threads' = [threads EXCEPT ![t].pc = "end", !.holder = 0]

\* done(cbSuccess), done(cbSuccess, cbFail), fail(cbFail): up to the test
\* of the state
Reg_enter ==
    /\ threads.on
    /\ Enter("reg", 1, IF threads.reg.op = "done" THEN "testS" ELSE "testF")

Reg_return ==
    /\ threads.on
    /\ Leave("reg")

\* where fail(cbFail) returns to
AfterFail == IF threads.reg.op = "fail" THEN "ret" ELSE "testS"

\* if (m_data->state == PromiseState::PENDING)   [fail]
Reg_testF ==
    /\ ThreadSame /\ Quiet /\ cells' = cells
    /\ threads.reg.pc = "testF"
    /\ threads' = [threads EXCEPT !.reg.pc = IF cells[ThreadCell].state = PENDING
                                              THEN "appF" ELSE "testF2"]

\* else if (m_data->state == PromiseState::REJECTED)
Reg_testF2 ==
    /\ ThreadSame /\ Quiet /\ cells' = cells
    /\ threads.reg.pc = "testF2"
    /\ threads' = [threads EXCEPT !.reg.pc = IF cells[ThreadCell].state = REJECTED
                                              THEN "callF" ELSE AfterFail]

\* the settling thread is iterating the list of `op`: an emplace_back
\* invalidates its iterators, and the loop may or may not reach the new
\* element
EndsAfterAppend(op) ==
    IF threads.set.pc = "loop" /\ threads.set.op = op
    THEN {threads.set.n, threads.set.n + 1} ELSE {threads.set.n}

\* m_data->rejectList.emplace_back(cbFail);
Reg_appF ==
    /\ ThreadSame /\ Quiet
    /\ threads.reg.pc = "appF"
    /\ cells' = [cells EXCEPT ![ThreadCell].rejectList = Append(@, RegF)]
    /\ \E n \in EndsAfterAppend("reject") :
         threads' = [threads EXCEPT !.reg.pc = AfterFail, !.set.n = n]

\* cbFail(m_data->err_ptr);
Reg_callF ==
    /\ ThreadSame /\ cells' = cells
    /\ threads.reg.pc = "callF"
    /\ Invoke(RegF, cells[ThreadCell].err)
    /\ threads' = [threads EXCEPT !.reg.pc = AfterFail]

\* if (m_data->state == PromiseState::PENDING)   [done]
Reg_testS ==
    /\ ThreadSame /\ Quiet /\ cells' = cells
    /\ threads.reg.pc = "testS"
    /\ threads' = [threads EXCEPT !.reg.pc = IF cells[ThreadCell].state = PENDING
                                              THEN "appS" ELSE "testS2"]

\* else if (m_data->state == PromiseState::RESOLVED)
Reg_testS2 ==
    /\ ThreadSame /\ Quiet /\ cells' = cells
    /\ threads.reg.pc = "testS2"
    /\ threads' = [threads EXCEPT !.reg.pc = IF cells[ThreadCell].state = RESOLVED
                                              THEN "callS" ELSE "ret"]

\* m_data->resolveList.emplace_back(cbSuccess);
Reg_appS ==
    /\ ThreadSame /\ Quiet
    /\ threads.reg.pc = "appS"
    /\ cells' = [cells EXCEPT ![ThreadCell].resolveList = Append(@, RegS)]
    /\ \E n \in EndsAfterAppend("resolve") :
         threads' = [threads EXCEPT !.reg.pc = "ret", !.set.n = n]

\* cbSuccess(m_data->value);
Reg_callS ==
    /\ ThreadSame /\ cells' = cells
    /\ threads.reg.pc = "callS"
    /\ Invoke(RegS, cells[ThreadCell].value)
    /\ threads' = [threads EXCEPT !.reg.pc = "ret"]

\* Deferred::resolve(v) / reject(ep) enters StateData::resolve / reject
Set_enter ==
    /\ threads.on
    /\ Enter("set", 2, "payload")

Set_return ==
    /\ threads.on
    /\ Leave("set")

\* value = v;   /   err_ptr = ep;
Set_payload ==
    /\ ThreadSame /\ Quiet
    /\ threads.set.pc = "payload"
    /\ cells' = IF threads.set.op = "resolve"
                THEN [cells EXCEPT ![ThreadCell].value = threads.set.arg]
                ELSE [cells EXCEPT ![ThreadCell].err = threads.set.arg]
    /\ threads' = [threads EXCEPT !.set.pc = "state"]

\* state = PromiseState::RESOLVED;   /   state = PromiseState::REJECTED;
Set_state ==
    /\ ThreadSame /\ Quiet
    /\ threads.set.pc = "state"
    /\ cells' = [cells EXCEPT ![ThreadCell].state =
                     IF threads.set.op = "resolve" THEN RESOLVED ELSE REJECTED]
    /\ threads' = [threads EXCEPT !.set.pc = "clearOther"]

\* rejectList.clear();   /   resolveList.clear();
Set_clearOther ==
    /\ ThreadSame /\ Quiet
    /\ threads.set.pc = "clearOther"
    /\ cells' = IF threads.set.op = "resolve"
                THEN [cells EXCEPT ![ThreadCell].rejectList = <<>>]
                ELSE [cells EXCEPT ![ThreadCell].resolveList = <<>>]
    /\ threads' = [threads EXCEPT !.set.pc = "for"]

\* the list the settling thread dispatches
SetList ==
    IF threads.set.op = "resolve"
    THEN cells[ThreadCell].resolveList ELSE cells[ThreadCell].rejectList

\* for (auto fn : list): begin() and end() are taken
Set_for ==
    /\ ThreadSame /\ Quiet /\ cells' = cells
    /\ threads.set.pc = "for"
    /\ threads' = [threads EXCEPT !.set.pc = "loop", !.set.i = 1, !.set.n = Len(SetList)]

\* the loop, had its body been empty
Set_loop_NoCall ==
    /\ ThreadSame /\ Quiet /\ cells' = cells
    /\ threads.set.pc = "loop"
    /\ threads' = [threads EXCEPT !.set.pc = "clear"]

\* one turn of the loop: fn(v);   /   fn(ep);
Set_loop ==
    /\ ThreadSame /\ cells' = cells
    /\ threads.set.pc = "loop"
    /\ IF threads.set.i > threads.set.n
       THEN Quiet /\ threads' = [threads EXCEPT !.set.pc = "clear"]
       ELSE /\ Invoke(SetList[threads.set.i], threads.set.arg)
            /\ threads' = [threads EXCEPT !.set.i = @ + 1]

\* resolveList.clear();   /   rejectList.clear();   after the loop
Set_clear ==
    /\ ThreadSame /\ Quiet
    /\ threads.set.pc = "clear"
    /\ cells' = IF threads.set.op = "resolve"
                THEN [cells EXCEPT ![ThreadCell].resolveList = <<>>]
                ELSE [cells EXCEPT ![ThreadCell].rejectList = <<>>]
    /\ threads' = [threads EXCEPT !.set.pc = "ret"]

\* a data race is undefined behaviour: the process may die of it
RaceCrash ==
    /\ threads.on /\ crashed = "no" /\ Racing
    /\ crashed' = "ub" /\ ub' = TRUE
    /\ UNCHANGED <<budget, cells, handles, used, ninv, hinv, fired, escaped, reent, threads>>

NextThreads ==
    \/ Reg_enter \/ Reg_testF \/ Reg_testF2 \/ Reg_appF \/ Reg_callF
    \/ Reg_testS \/ Reg_testS2 \/ Reg_appS \/ Reg_callS \/ Reg_return
    \/ Set_enter \/ Set_payload \/ Set_state \/ Set_clearOther \/ Set_for
    \/ Set_loop \/ Set_clear \/ Set_return
    \/ RaceCrash

SpecThreads == InitThreads /\ [][NextThreads]_vars

\* both calls have returned
Finished == threads.on /\ threads.reg.pc = "end" /\ threads.set.pc = "end"

\* the callback of the registering thread that the outcome of the cell asks
\* for, if the thread passed one
Matching ==
    IF threads.set.op = "resolve"
    THEN IF threads.reg.op \in {"done", "done2"} THEN {"userS"} ELSE {}
    ELSE IF threads.reg.op \in {"done2", "fail"} THEN {"userF"} ELSE {}

\* C22: with every done / fail / resolve / reject call made atomic by a
\* lock, no interleaving of a registering and a settling thread loses the
\* callback: once both calls have returned it has run exactly once, nothing
\* is left queued on the settled cell, and nothing undefined happened.
\* (Without the lock the callback can be lost: C22_Witness.)
C22_LockedCallsLoseNothing ==
    (Finished /\ threads.lock)
    => /\ \A k \in Matching : ninv[RegS.id][k] = 1
       /\ \A k \in {"userS", "userF"} \ Matching : ninv[RegS.id][k] = 0
       /\ cells[ThreadCell].resolveList = <<>> /\ cells[ThreadCell].rejectList = <<>>
       /\ ~ub /\ crashed = "no"

\* without a lock: done(cb) and resolve(v) have both returned, the cell is
\* Resolved, and cb was never invoked
C22_Witness ==
    /\ Finished /\ ~threads.lock /\ crashed = "no"
    /\ threads.reg.op = "done" /\ threads.set.op = "resolve"
    /\ cells[ThreadCell].state = RESOLVED
    /\ ninv[RegS.id].userS = 0

====
